---- MODULE Spec2Model ----
(***************************************************************************)
(* Model of the Anxiety I/O scheduler, block/anxiety-iosched.c.            *)
(*                                                                         *)
(* The scheduler keeps two intrusive, circular, doubly linked lists        *)
(* (struct list_head queue[2]) and one tunable (sync_ratio).  The lists    *)
(* are modelled with their next/prev pointers; the contents of a queue as  *)
(* a sequence is derived by walking the pointers.  Every elevator hook is  *)
(* one atomic action: the block layer calls the hooks under queue_lock.    *)
(***************************************************************************)
EXTENDS Integers, Sequences, FiniteSets, TLC

\* Number of requests the host allocates during one run (request ids 1..MaxReq,
\* handed out in order of allocation).
MaxReq == 3

DEFAULT_SYNC_RATIO == 4

SYNC == 0
ASYNC == 1

NULL == 0
EINVAL == 22
ERANGE == 34
U8_MAX == 255

Requests == 1..MaxReq

\* &adata->queue[d]: the list head of class d, as a node distinct from any request
QueueHead(d) == -(d + 1)

Nodes == Requests \cup {QueueHead(SYNC), QueueHead(ASYNC)}

VARIABLES
    next,           \* list_head.next of every node (request queuelist, queue[d])
    prev,           \* list_head.prev of every node
    sync_ratio,     \* adata->sync_ratio (uint8_t)
    contig_syncs,   \* adata->contig_syncs (uint16_t)
    dir,            \* rq_data_dir of every allocated request; -1 before allocation
    nr_alloc,       \* number of requests the host has allocated so far
    dispatched,     \* requests handed to elv_dispatch_sort, in submission order
    merged,         \* requests removed by anxiety_merged_requests
    waited,         \* per request: dispatch calls made while it was in queue[ASYNC]
    ahead0,         \* per request: requests ahead of it in its queue at enqueue
    last,           \* the last call: hook, arguments, result, state before it
    disp,           \* the dispatch call in progress, when its steps are told apart
    setup           \* anxiety_init_queue: its position, eq, adata, q->elevator

vars == <<next, prev, sync_ratio, contig_syncs, dir, nr_alloc, dispatched,
          merged, waited, ahead0, last, disp, setup>>

\* q->elevator is the new instance: the block layer calls the hooks below only
\* through it
Registered == setup.q_elevator = "anxiety"

\* No dispatch call is in progress.  The block layer calls the request hooks
\* with q->queue_lock held, so none of them runs inside another.
QueueLockFree == disp.pc = "idle"

----------------------------------------------------------------------------
(* include/linux/list.h, on a record L = [next |-> ..., prev |-> ...]       *)

list_empty(L, head) == L.next[head] = head

list_add_tail(L, new, head) ==
    LET p == L.prev[head]
        n == head
        P1 == [L.prev EXCEPT ![n] = new]
        N1 == [L.next EXCEPT ![new] = n]
        P2 == [P1 EXCEPT ![new] = p]
        N2 == [N1 EXCEPT ![p] = new]
    IN  [next |-> N2, prev |-> P2]

list_del_init(L, entry) ==
    LET p == L.prev[entry]
        n == L.next[entry]
        P1 == [L.prev EXCEPT ![n] = p]
        N1 == [L.next EXCEPT ![p] = n]
    IN  [next |-> [N1 EXCEPT ![entry] = entry],
         prev |-> [P1 EXCEPT ![entry] = entry]]

\* The entries of a list from head->next up to (not including) head.  The walk
\* is cut after fuel steps so that it is defined on any pointer structure.
RECURSIVE ListWalk(_, _, _, _)
ListWalk(nx, head, n, fuel) ==
    IF n = head \/ fuel = 0 THEN <<>>
    ELSE <<n>> \o ListWalk(nx, head, nx[n], fuel - 1)

ListSeq(nx, head) == ListWalk(nx, head, nx[head], Cardinality(Nodes))

\* The same list walked backwards through the prev pointers, tail first.
RECURSIVE ListWalkBack(_, _, _, _)
ListWalkBack(pv, head, n, fuel) ==
    IF n = head \/ fuel = 0 THEN <<>>
    ELSE <<n>> \o ListWalkBack(pv, head, pv[n], fuel - 1)

ListSeqBack(pv, head) == ListWalkBack(pv, head, pv[head], Cardinality(Nodes))

Range(s) == {s[i] : i \in 1..Len(s)}

\* F(v), with v evaluated once before F is applied to it
WithValue(v, F(_)) == CHOOSE y \in {F(x) : x \in {v}} : TRUE

Lists == [next |-> next, prev |-> prev]
Queue(d) == ListSeq(next, QueueHead(d))
Queued == Range(Queue(SYNC)) \cup Range(Queue(ASYNC))

IndexOf(s, x) == CHOOSE i \in 1..Len(s) : s[i] = x

----------------------------------------------------------------------------
(* Text of the sysfs attribute: a sequence of one-character strings.        *)

DigitVal(c) ==
    CASE c = "0" -> 0  [] c = "1" -> 1  [] c = "2" -> 2  [] c = "3" -> 3
      [] c = "4" -> 4  [] c = "5" -> 5  [] c = "6" -> 6  [] c = "7" -> 7
      [] c = "8" -> 8  [] c = "9" -> 9
      [] c \in {"a", "A"} -> 10  [] c \in {"b", "B"} -> 11
      [] c \in {"c", "C"} -> 12  [] c \in {"d", "D"} -> 13
      [] c \in {"e", "E"} -> 14  [] c \in {"f", "F"} -> 15
      [] OTHER -> 99

DropFirst(s, k) == SubSeq(s, k + 1, Len(s))

\* base 0: "0x" followed by a hex digit selects 16, another leading "0"
\* selects 8, anything else 10; a "0x" prefix is skipped for base 16
_parse_integer_fixup_radix(s) ==
    LET base == IF Len(s) >= 1 /\ s[1] = "0"
                THEN IF Len(s) >= 3 /\ s[2] \in {"x", "X"} /\ DigitVal(s[3]) < 16
                     THEN 16 ELSE 8
                ELSE 10
    IN  [base |-> base, s |-> IF base = 16 THEN DropFirst(s, 2) ELSE s]

\* consumes the longest prefix of digits below base; rv is its length
RECURSIVE _parse_integer(_, _, _, _)
_parse_integer(s, base, res, rv) ==
    IF s # <<>> /\ DigitVal(s[1]) < base
    THEN _parse_integer(Tail(s), base, res * base + DigitVal(s[1]), rv + 1)
    ELSE [rv |-> rv, res |-> res, s |-> s]

\* kstrtou8(s, 0, res): ret = 0 and val is stored to *res, or ret < 0 and
\* *res is not written.  The texts drawn below are far too short to overflow
\* the unsigned long long accumulator, so only the u8 range check can fail.
kstrtou8(page) ==
    LET s0 == IF page # <<>> /\ page[1] = "+" THEN Tail(page) ELSE page
        fx == _parse_integer_fixup_radix(s0)
        pi == _parse_integer(fx.s, fx.base, 0, 0)
        s1 == IF pi.s # <<>> /\ pi.s[1] = "\n" THEN Tail(pi.s) ELSE pi.s
    IN  IF pi.rv = 0 THEN [ret |-> -EINVAL, val |-> 0]
        ELSE IF s1 # <<>> THEN [ret |-> -EINVAL, val |-> 0]
        ELSE IF pi.res > U8_MAX THEN [ret |-> -ERANGE, val |-> 0]
        ELSE [ret |-> 0, val |-> pi.res]

DigitChar(d) ==
    CASE d = 0 -> "0" [] d = 1 -> "1" [] d = 2 -> "2" [] d = 3 -> "3"
      [] d = 4 -> "4" [] d = 5 -> "5" [] d = 6 -> "6" [] d = 7 -> "7"
      [] d = 8 -> "8" [] d = 9 -> "9"

\* "%u"
RECURSIVE FormatUnsigned(_)
FormatUnsigned(n) ==
    IF n < 10 THEN <<DigitChar(n)>>
    ELSE FormatUnsigned(n \div 10) \o <<DigitChar(n % 10)>>

\* The texts written to the attribute in a run.
Pages ==
    { <<"0">>, <<"+", "1">>, <<"2", "\n">>, <<"0", "x", "f", "f">>,
      <<"2", "5", "6">>, <<"0", "x", "1", "0", "0">>, <<>>, <<"-", "1">>,
      <<"2", " ">> }

----------------------------------------------------------------------------
(* The record of the last call                                              *)

NoCall ==
    [op |-> "init", rq |-> NULL, page |-> <<>>, ret |-> 0,
     sync |-> <<>>, async |-> <<>>, ratio |-> DEFAULT_SYNC_RATIO,
     emitted |-> <<>>]

Call(op, rq, page, ret, emitted) ==
    [op |-> op, rq |-> rq, page |-> page, ret |-> ret,
     sync |-> Queue(SYNC), async |-> Queue(ASYNC), ratio |-> sync_ratio,
     emitted |-> emitted]

----------------------------------------------------------------------------
(* The elevator hooks                                                       *)

\* elv_dispatch_sort(q, rq): rq joins the device's dispatch queue; the model
\* records the order of submission
elv_dispatch_sort(sink, rq) == Append(sink, rq)

rq_entry_fifo(ptr) == ptr

\* The request unlinked from its queue but not handed on.
__anxiety_dispatch_Drop(L, sink, rq) ==
    IF rq = NULL THEN [L |-> L, sink |-> sink, ret |-> -EINVAL]
    ELSE [L |-> list_del_init(L, rq), sink |-> sink, ret |-> 0]

\* The request handed on without being unlinked from its queue.
__anxiety_dispatch_NoUnlink(L, sink, rq) ==
    IF rq = NULL THEN [L |-> L, sink |-> sink, ret |-> -EINVAL]
    ELSE [L |-> L, sink |-> elv_dispatch_sort(sink, rq), ret |-> 0]

__anxiety_dispatch(L, sink, rq) ==
    IF rq = NULL THEN [L |-> L, sink |-> sink, ret |-> -EINVAL]
    ELSE [L |-> list_del_init(L, rq), sink |-> elv_dispatch_sort(sink, rq),
          ret |-> 0]

\* The batch loop with its bound off by one (batched <= sync_ratio).
RECURSIVE SyncBatch_OffByOne(_, _, _, _)
SyncBatch_OffByOne(L, sink, batched, ratio) ==
    IF batched <= ratio
    THEN IF ~list_empty(L, QueueHead(SYNC))
         THEN LET d == __anxiety_dispatch(L, sink,
                           rq_entry_fifo(L.next[QueueHead(SYNC)]))
              IN  SyncBatch_OffByOne(d.L, d.sink, batched + 1, ratio)
         ELSE [L |-> L, sink |-> sink]
    ELSE [L |-> L, sink |-> sink]

\* The batch loop with its test after the body (do ... while).
RECURSIVE SyncBatch_DoWhile(_, _, _, _)
SyncBatch_DoWhile(L, sink, batched, ratio) ==
    IF ~list_empty(L, QueueHead(SYNC))
    THEN WithValue(__anxiety_dispatch(L, sink,
                       rq_entry_fifo(L.next[QueueHead(SYNC)])),
                   LAMBDA d : IF batched + 1 < ratio
                              THEN SyncBatch_DoWhile(d.L, d.sink, batched + 1, ratio)
                              ELSE [L |-> d.L, sink |-> d.sink])
    ELSE [L |-> L, sink |-> sink]

\* for (batched = 0; batched < adata->sync_ratio; batched++)
\* Once queue[SYNC] is found empty, every remaining iteration finds it empty
\* too (nothing in the loop adds to it) and does nothing: those iterations are
\* taken in one step, batched jumping to sync_ratio.
RECURSIVE SyncBatch(_, _, _, _)
SyncBatch(L, sink, batched, ratio) ==
    IF batched < ratio
    THEN IF ~list_empty(L, QueueHead(SYNC))
         THEN WithValue(__anxiety_dispatch(L, sink,
                            rq_entry_fifo(L.next[QueueHead(SYNC)])),
                        LAMBDA d : SyncBatch(d.L, d.sink, batched + 1, ratio))
         ELSE SyncBatch(L, sink, ratio, ratio)
    ELSE [L |-> L, sink |-> sink]

\* The async request submitted only when no sync request is left waiting.
AsyncOne_AfterSyncDrained(L, sink) ==
    IF ~list_empty(L, QueueHead(ASYNC)) /\ list_empty(L, QueueHead(SYNC))
    THEN LET d == __anxiety_dispatch(L, sink,
                      rq_entry_fifo(L.next[QueueHead(ASYNC)]))
         IN  [L |-> d.L, sink |-> d.sink]
    ELSE [L |-> L, sink |-> sink]

AsyncOne(L, sink) ==
    IF ~list_empty(L, QueueHead(ASYNC))
    THEN LET d == __anxiety_dispatch(L, sink,
                      rq_entry_fifo(L.next[QueueHead(ASYNC)]))
         IN  [L |-> d.L, sink |-> d.sink]
    ELSE [L |-> L, sink |-> sink]

\* Dispatch that leaves once queue[SYNC] runs dry before the batch is full.
DispatchResult_ShortBatchReturns(L, sink, ratio) ==
    IF list_empty(L, QueueHead(SYNC)) /\ list_empty(L, QueueHead(ASYNC))
    THEN [L |-> L, sink |-> sink, ret |-> 0]
    ELSE LET b == SyncBatch(L, sink, 0, ratio)
             a == IF Len(b.sink) - Len(sink) < ratio THEN b
                  ELSE AsyncOne(b.L, b.sink)
         IN  [L |-> a.L, sink |-> a.sink, ret |-> 1]

\* Dispatch that holds the sync requests back until a whole batch is waiting.
DispatchResult_FullBatchOnly(L, sink, ratio) ==
    IF list_empty(L, QueueHead(SYNC)) /\ list_empty(L, QueueHead(ASYNC))
    THEN [L |-> L, sink |-> sink, ret |-> 0]
    ELSE WithValue(IF Len(ListSeq(L.next, QueueHead(SYNC))) >= ratio
                   THEN SyncBatch(L, sink, 0, ratio)
                   ELSE [L |-> L, sink |-> sink], LAMBDA b :
         WithValue(AsyncOne(b.L, b.sink), LAMBDA a :
         [L |-> a.L, sink |-> a.sink, ret |-> 1]))

\* Dispatch that reports whether a request was moved.
DispatchResult_ReturnsMoved(L, sink, ratio) ==
    IF list_empty(L, QueueHead(SYNC)) /\ list_empty(L, QueueHead(ASYNC))
    THEN [L |-> L, sink |-> sink, ret |-> 0]
    ELSE WithValue(SyncBatch(L, sink, 0, ratio), LAMBDA b :
         WithValue(AsyncOne(b.L, b.sink), LAMBDA a :
         [L |-> a.L, sink |-> a.sink,
          ret |-> IF Len(a.sink) > Len(sink) THEN 1 ELSE 0]))

\* Dispatch without the test for two empty queues.
DispatchResult_NoEmptyTest(L, sink, ratio) ==
    LET b == SyncBatch(L, sink, 0, ratio)
        a == AsyncOne(b.L, b.sink)
    IN  [L |-> a.L, sink |-> a.sink, ret |-> 1]

DispatchResult(L, sink, ratio) ==
    IF list_empty(L, QueueHead(SYNC)) /\ list_empty(L, QueueHead(ASYNC))
    THEN [L |-> L, sink |-> sink, ret |-> 0]
    ELSE WithValue(SyncBatch(L, sink, 0, ratio), LAMBDA b :
         WithValue(AsyncOne(b.L, b.sink), LAMBDA a :
         [L |-> a.L, sink |-> a.sink, ret |-> 1]))

anxiety_dispatch ==
    /\ Registered
    /\ QueueLockFree
    /\ \E d \in {DispatchResult(Lists, dispatched, sync_ratio)} :
        /\ next' = d.L.next
        /\ prev' = d.L.prev
        /\ dispatched' = d.sink
        /\ waited' = [r \in Requests |->
                        IF r \in Range(Queue(ASYNC)) THEN waited[r] + 1
                        ELSE waited[r]]
        /\ last' = Call("dispatch", NULL, <<>>, d.ret,
                        DropFirst(d.sink, Len(dispatched)))
        /\ UNCHANGED <<disp, setup>>
        /\ UNCHANGED <<sync_ratio, contig_syncs, dir, nr_alloc, merged, ahead0>>

\* list_add in place of list_add_tail: the request goes to the front.
AddResult_AtHead(L, rq, d) ==
    LET h == QueueHead(d)
        n == L.next[h]
        P1 == [L.prev EXCEPT ![n] = rq]
        N1 == [L.next EXCEPT ![rq] = n]
        P2 == [P1 EXCEPT ![rq] = h]
        N2 == [N1 EXCEPT ![h] = rq]
    IN  [next |-> N2, prev |-> P2]

\* The request appended to the queue of the other direction.
AddResult_OtherQueue(L, rq, d) == list_add_tail(L, rq, QueueHead(1 - d))

AddResult(L, rq, d) == list_add_tail(L, rq, QueueHead(d))

\* The host allocates its next request, of either direction, and adds it.
anxiety_add_request ==
    /\ Registered
    /\ QueueLockFree
    /\ nr_alloc < MaxReq
    /\ \E d \in {SYNC, ASYNC} :
         LET rq == nr_alloc + 1
             L == AddResult(Lists, rq, d)
         IN  /\ nr_alloc' = rq
             /\ dir' = [dir EXCEPT ![rq] = d]
             /\ next' = L.next
             /\ prev' = L.prev
             /\ ahead0' = [ahead0 EXCEPT ![rq] = Len(Queue(d))]
             /\ last' = Call("add", rq, <<>>, 0, <<>>)
    /\ UNCHANGED <<disp, setup>>
    /\ UNCHANGED <<sync_ratio, contig_syncs, dispatched, merged, waited>>

\* The unlink that repairs the forward link only: next->prev is left pointing
\* at the removed request.
MergedResult_HalfUnlinked(L, nxt) ==
    [next |-> [L.next EXCEPT ![L.prev[nxt]] = L.next[nxt]], prev |-> L.prev]

\* The request after nxt unlinked in place of nxt.
MergedResult_RemovesSuccessor(L, nxt) == list_del_init(L, L.next[nxt])

MergedResult(L, nxt) == list_del_init(L, nxt)

\* elv_merge_requests: the host has merged the queued request nxt into another
\* request and drops it
anxiety_merged_requests ==
    /\ Registered
    /\ QueueLockFree
    /\ \E nxt \in Queued :
        LET L == MergedResult(Lists, nxt)
        IN  /\ next' = L.next
            /\ prev' = L.prev
            /\ merged' = merged \cup {nxt}
            /\ last' = Call("merged", nxt, <<>>, 0, <<>>)
            /\ UNCHANGED <<disp, setup>>
            /\ UNCHANGED <<sync_ratio, contig_syncs, dir, nr_alloc, dispatched,
                           waited, ahead0>>

\* The head test made against queue[SYNC] whatever the request's direction.
FormerResult_WrongHead(L, rq, d) ==
    IF L.prev[rq] = QueueHead(SYNC) THEN NULL ELSE L.prev[rq]

FormerResult(L, rq, d) ==
    IF L.prev[rq] = QueueHead(d) THEN NULL ELSE L.prev[rq]

LatterResult(L, rq, d) ==
    IF L.next[rq] = QueueHead(d) THEN NULL ELSE L.next[rq]

anxiety_former_request ==
    /\ Registered
    /\ QueueLockFree
    /\ \E rq \in Queued :
        /\ last' = Call("former", rq, <<>>, FormerResult(Lists, rq, dir[rq]), <<>>)
        /\ UNCHANGED <<disp, setup>>
        /\ UNCHANGED <<next, prev, sync_ratio, contig_syncs, dir, nr_alloc,
                       dispatched, merged, waited, ahead0>>

anxiety_latter_request ==
    /\ Registered
    /\ QueueLockFree
    /\ \E rq \in Queued :
        /\ last' = Call("latter", rq, <<>>, LatterResult(Lists, rq, dir[rq]), <<>>)
        /\ UNCHANGED <<disp, setup>>
        /\ UNCHANGED <<next, prev, sync_ratio, contig_syncs, dir, nr_alloc,
                       dispatched, merged, waited, ahead0>>

\* snprintf(page, PAGE_SIZE, "%u\n", adata->sync_ratio)
ShowResult(ratio) == FormatUnsigned(ratio) \o <<"\n">>

anxiety_sync_ratio_show ==
    /\ Registered
    /\ last' = Call("show", NULL, ShowResult(sync_ratio),
                    Len(ShowResult(sync_ratio)), <<>>)
    /\ UNCHANGED <<disp, setup>>
    /\ UNCHANGED <<next, prev, sync_ratio, contig_syncs, dir, nr_alloc,
                   dispatched, merged, waited, ahead0>>

\* The parsed number stored before the result of the parse is looked at.
StoreResult_WritesOnFailure(ratio, page) ==
    LET k == kstrtou8(page)
    IN  [ratio |-> k.val, ret |-> IF k.ret < 0 THEN k.ret ELSE Len(page)]

\* ret = kstrtou8(page, 0, &adata->sync_ratio); return ret < 0 ? ret : count
StoreResult(ratio, page) ==
    LET k == kstrtou8(page)
    IN  [ratio |-> IF k.ret = 0 THEN k.val ELSE ratio,
         ret |-> IF k.ret < 0 THEN k.ret ELSE Len(page)]

anxiety_sync_ratio_store ==
    /\ Registered
    /\ \E page \in Pages :
        LET s == StoreResult(sync_ratio, page)
        IN  /\ sync_ratio' = s.ratio
            /\ last' = Call("store", NULL, page, s.ret, <<>>)
            /\ UNCHANGED <<disp, setup>>
            /\ UNCHANGED <<next, prev, contig_syncs, dir, nr_alloc, dispatched,
                           merged, waited, ahead0>>

----------------------------------------------------------------------------
NoDispatch ==
    [pc |-> "idle", batched |-> 0, reload |-> TRUE, ratio |-> 0,
     sync |-> <<>>, async |-> <<>>, sunk |-> 0]

\* anxiety_init_queue has returned 0
SetupDone ==
    [pc |-> "done", eq |-> "live", adata |-> "live", elevator_data |-> "adata",
     q_elevator |-> "anxiety", failed |-> "none", ret |-> 0]

\* anxiety_init_queue: both lists empty, contig_syncs 0, the default ratio
Init ==
    /\ next = [n \in Nodes |-> n]
    /\ prev = [n \in Nodes |-> n]
    /\ sync_ratio = DEFAULT_SYNC_RATIO
    /\ contig_syncs = 0
    /\ dir = [r \in Requests |-> -1]
    /\ nr_alloc = 0
    /\ dispatched = <<>>
    /\ merged = {}
    /\ waited = [r \in Requests |-> 0]
    /\ ahead0 = [r \in Requests |-> 0]
    /\ last = NoCall
    /\ disp = NoDispatch
    /\ setup = SetupDone

Next ==
    \/ anxiety_add_request
    \/ anxiety_dispatch
    \/ anxiety_merged_requests
    \/ anxiety_former_request
    \/ anxiety_latter_request
    \/ anxiety_sync_ratio_show
    \/ anxiety_sync_ratio_store

Spec == Init /\ [][Next]_vars

\* The calls that change the scheduler's state; the lookups and the attribute
\* read are left out.
NextUpdate ==
    \/ anxiety_add_request
    \/ anxiety_dispatch
    \/ anxiety_merged_requests
    \/ anxiety_sync_ratio_store

\* The host keeps running the queue: the dispatch hook is called again and again.
FairSpec == Init /\ [][NextUpdate]_vars /\ WF_vars(anxiety_dispatch)

----------------------------------------------------------------------------
(* anxiety_dispatch step by step.  The attribute write runs outside            *)
(* q->queue_lock (anxiety_sync_ratio_store takes no lock) and so may fall       *)
(* between any two steps of a dispatch call; the request hooks may not.  The    *)
(* loop test reads adata->sync_ratio, a plain uint8_t, while the write stores   *)
(* to it: either the test reads the field again on every iteration (reload) or  *)
(* the value read on entry is kept for the whole loop.                          *)

anxiety_dispatch_enter ==
    /\ Registered
    /\ QueueLockFree
    /\ IF /\ list_empty(Lists, QueueHead(SYNC))
          /\ list_empty(Lists, QueueHead(ASYNC))
       THEN /\ last' = Call("dispatch", NULL, <<>>, 0, <<>>)
            /\ UNCHANGED <<disp, waited>>
       ELSE /\ \E reload \in BOOLEAN :
                 disp' = [pc |-> "batch", batched |-> 0, reload |-> reload,
                          ratio |-> sync_ratio, sync |-> Queue(SYNC),
                          async |-> Queue(ASYNC), sunk |-> Len(dispatched)]
            /\ waited' = [r \in Requests |->
                            IF r \in Range(Queue(ASYNC)) THEN waited[r] + 1
                            ELSE waited[r]]
            /\ UNCHANGED last
    /\ UNCHANGED <<next, prev, sync_ratio, contig_syncs, dir, nr_alloc,
                   dispatched, merged, ahead0, setup>>

\* One test of the loop condition and, if it holds, one iteration.  With
\* queue[SYNC] empty the iterations that remain do nothing, whatever the bound
\* is or becomes: the call goes on to the async request.
anxiety_dispatch_batch ==
    /\ disp.pc = "batch"
    /\ LET limit == IF disp.reload THEN sync_ratio ELSE disp.ratio
       IN  IF disp.batched < limit /\ ~list_empty(Lists, QueueHead(SYNC))
           THEN \E d \in {__anxiety_dispatch(Lists, dispatched,
                               rq_entry_fifo(next[QueueHead(SYNC)]))} :
                    /\ next' = d.L.next
                    /\ prev' = d.L.prev
                    /\ dispatched' = d.sink
                    /\ disp' = [disp EXCEPT !.batched = @ + 1]
           ELSE /\ disp' = [disp EXCEPT !.pc = "async"]
                /\ UNCHANGED <<next, prev, dispatched>>
    /\ UNCHANGED <<sync_ratio, contig_syncs, dir, nr_alloc, merged, waited,
                   ahead0, last, setup>>

\* The async request, and return 1.
anxiety_dispatch_async ==
    /\ disp.pc = "async"
    /\ \E a \in {AsyncOne(Lists, dispatched)} :
          /\ next' = a.L.next
          /\ prev' = a.L.prev
          /\ dispatched' = a.sink
          /\ last' = [op |-> "dispatch", rq |-> NULL, page |-> <<>>, ret |-> 1,
                      sync |-> disp.sync, async |-> disp.async,
                      ratio |-> disp.ratio,
                      emitted |-> DropFirst(a.sink, disp.sunk)]
    /\ disp' = NoDispatch
    /\ UNCHANGED <<sync_ratio, contig_syncs, dir, nr_alloc, merged, waited,
                   ahead0, setup>>

RaceNext ==
    \/ anxiety_add_request
    \/ anxiety_dispatch_enter
    \/ anxiety_dispatch_batch
    \/ anxiety_dispatch_async
    \/ anxiety_sync_ratio_store

RaceSpec == Init /\ [][RaceNext]_vars

----------------------------------------------------------------------------
(* anxiety_init_queue step by step, from freshly allocated memory.           *)

ENOMEM == 12

INIT_LIST_HEAD(L, head) ==
    [next |-> [L.next EXCEPT ![head] = head],
     prev |-> [L.prev EXCEPT ![head] = head]]

\* What kmalloc_node's memory may hold before it is written.
GarbagePtr == Nodes
GarbageU8 == {0, DEFAULT_SYNC_RATIO, U8_MAX}
GarbageU16 == {0, 65535}

SetupStart ==
    [pc |-> "elevator_alloc", eq |-> "none", adata |-> "none",
     elevator_data |-> "unset", q_elevator |-> "prev", failed |-> "none",
     ret |-> 0]

\* The statements that follow the two allocations, in order.
InitOrder_PublishFirst ==
    <<"publish", "set_data", "init_sync", "init_async", "contig", "ratio">>

InitOrder_NoRatio ==
    <<"set_data", "init_sync", "init_async", "contig", "publish">>

InitOrder ==
    <<"set_data", "init_sync", "init_async", "contig", "ratio", "publish">>

StepAfter(pc) ==
    IF IndexOf(InitOrder, pc) = Len(InitOrder) THEN "done"
    ELSE InitOrder[IndexOf(InitOrder, pc) + 1]

Heads == {QueueHead(SYNC), QueueHead(ASYNC)}

\* Entry to anxiety_init_queue: the queue still has its previous elevator, the
\* memory kmalloc_node will return holds anything.
InitAlloc ==
    /\ \E gn \in [Heads -> GarbagePtr], gp \in [Heads -> GarbagePtr] :
          /\ next = [n \in Nodes |-> IF n \in Heads THEN gn[n] ELSE n]
          /\ prev = [n \in Nodes |-> IF n \in Heads THEN gp[n] ELSE n]
    /\ sync_ratio \in GarbageU8
    /\ contig_syncs \in GarbageU16
    /\ dir = [r \in Requests |-> -1]
    /\ nr_alloc = 0
    /\ dispatched = <<>>
    /\ merged = {}
    /\ waited = [r \in Requests |-> 0]
    /\ ahead0 = [r \in Requests |-> 0]
    /\ last = NoCall
    /\ disp = NoDispatch
    /\ setup = SetupStart

\* eq = elevator_alloc(q, elv); if (!eq) return -ENOMEM;
anxiety_init_elevator_alloc ==
    /\ setup.pc = "elevator_alloc"
    /\ \/ setup' = [setup EXCEPT !.eq = "live", !.pc = "kmalloc"]
       \/ setup' = [setup EXCEPT !.failed = "eq", !.ret = -ENOMEM, !.pc = "done"]
    /\ UNCHANGED <<next, prev, sync_ratio, contig_syncs, dir, nr_alloc,
                   dispatched, merged, waited, ahead0, last, disp>>

\* adata = kmalloc_node(...);
\* if (!adata) { kobject_put(&eq->kobj); return -ENOMEM; }
anxiety_init_kmalloc ==
    /\ setup.pc = "kmalloc"
    /\ \/ setup' = [setup EXCEPT !.adata = "live", !.pc = InitOrder[1]]
       \/ setup' = [setup EXCEPT !.eq = "put", !.failed = "adata",
                                 !.ret = -ENOMEM, !.pc = "done"]
    /\ UNCHANGED <<next, prev, sync_ratio, contig_syncs, dir, nr_alloc,
                   dispatched, merged, waited, ahead0, last, disp>>

\* eq->elevator_data = adata;
anxiety_init_set_data ==
    /\ setup.pc = "set_data"
    /\ setup' = [setup EXCEPT !.elevator_data = "adata",
                              !.pc = StepAfter("set_data")]
    /\ UNCHANGED <<next, prev, sync_ratio, contig_syncs, dir, nr_alloc,
                   dispatched, merged, waited, ahead0, last, disp>>

\* INIT_LIST_HEAD(&adata->queue[SYNC]);
anxiety_init_list_sync ==
    /\ setup.pc = "init_sync"
    /\ next' = INIT_LIST_HEAD(Lists, QueueHead(SYNC)).next
    /\ prev' = INIT_LIST_HEAD(Lists, QueueHead(SYNC)).prev
    /\ setup' = [setup EXCEPT !.pc = StepAfter("init_sync")]
    /\ UNCHANGED <<sync_ratio, contig_syncs, dir, nr_alloc, dispatched, merged,
                   waited, ahead0, last, disp>>

\* INIT_LIST_HEAD(&adata->queue[ASYNC]);
anxiety_init_list_async ==
    /\ setup.pc = "init_async"
    /\ next' = INIT_LIST_HEAD(Lists, QueueHead(ASYNC)).next
    /\ prev' = INIT_LIST_HEAD(Lists, QueueHead(ASYNC)).prev
    /\ setup' = [setup EXCEPT !.pc = StepAfter("init_async")]
    /\ UNCHANGED <<sync_ratio, contig_syncs, dir, nr_alloc, dispatched, merged,
                   waited, ahead0, last, disp>>

\* adata->contig_syncs = 0;
anxiety_init_contig_syncs ==
    /\ setup.pc = "contig"
    /\ contig_syncs' = 0
    /\ setup' = [setup EXCEPT !.pc = StepAfter("contig")]
    /\ UNCHANGED <<next, prev, sync_ratio, dir, nr_alloc, dispatched, merged,
                   waited, ahead0, last, disp>>

\* adata->sync_ratio = DEFAULT_SYNC_RATIO;
anxiety_init_sync_ratio ==
    /\ setup.pc = "ratio"
    /\ sync_ratio' = DEFAULT_SYNC_RATIO
    /\ setup' = [setup EXCEPT !.pc = StepAfter("ratio")]
    /\ UNCHANGED <<next, prev, contig_syncs, dir, nr_alloc, dispatched, merged,
                   waited, ahead0, last, disp>>

\* spin_lock_irq(q->queue_lock); q->elevator = eq; spin_unlock_irq(...);
anxiety_init_publish ==
    /\ setup.pc = "publish"
    /\ setup' = [setup EXCEPT !.q_elevator = "anxiety",
                              !.pc = StepAfter("publish")]
    /\ UNCHANGED <<next, prev, sync_ratio, contig_syncs, dir, nr_alloc,
                   dispatched, merged, waited, ahead0, last, disp>>

\* anxiety_init_queue, then the attribute read and the dispatch hook on the
\* new instance.
InitNext ==
    \/ anxiety_init_elevator_alloc
    \/ anxiety_init_kmalloc
    \/ anxiety_init_set_data
    \/ anxiety_init_list_sync
    \/ anxiety_init_list_async
    \/ anxiety_init_contig_syncs
    \/ anxiety_init_sync_ratio
    \/ anxiety_init_publish
    \/ anxiety_sync_ratio_show
    \/ anxiety_dispatch

InitSpec == InitAlloc /\ [][InitNext]_vars

TypeOK ==
    /\ next \in [Nodes -> Nodes]
    /\ prev \in [Nodes -> Nodes]
    /\ sync_ratio \in 0..U8_MAX
    /\ contig_syncs = 0
    /\ nr_alloc \in 0..MaxReq
    /\ merged \subseteq Requests

----------------------------------------------------------------------------
(* Properties                                                               *)

ClassOf(sq, d) == SelectSeq(sq, LAMBDA r : dir[r] = d)

\* C1: batch shape.  A dispatch call made with sync_ratio = N, at least N
\* requests in queue[SYNC] and queue[ASYNC] not empty submits the first N sync
\* requests in queue order, then the async head; queue[SYNC] keeps the rest in
\* order and queue[ASYNC] has lost exactly its head.
BatchShape ==
    (last.op = "dispatch" /\ Len(last.sync) >= last.ratio /\ last.async # <<>>)
    => /\ last.emitted = SubSeq(last.sync, 1, last.ratio) \o <<Head(last.async)>>
       /\ Queue(SYNC) = DropFirst(last.sync, last.ratio)
       /\ Queue(ASYNC) = Tail(last.async)

BatchShapeWitness ==
    /\ last.op = "dispatch"
    /\ last.ratio >= 1
    /\ Len(last.sync) > last.ratio
    /\ last.async # <<>>
    /\ Queue(SYNC) # <<>>

\* C2: partial batch.  A dispatch call made with M < sync_ratio requests in
\* queue[SYNC] and queue[ASYNC] not empty submits all M sync requests in queue
\* order, then the async head, leaves queue[SYNC] empty and returns 1.
PartialBatch ==
    (last.op = "dispatch" /\ Len(last.sync) < last.ratio /\ last.async # <<>>)
    => /\ last.emitted = last.sync \o <<Head(last.async)>>
       /\ Queue(SYNC) = <<>>
       /\ Queue(ASYNC) = Tail(last.async)
       /\ last.ret = 1

PartialBatchWitness ==
    /\ last.op = "dispatch"
    /\ Len(last.sync) >= 1
    /\ Len(last.sync) < last.ratio
    /\ last.async # <<>>
    /\ Len(last.emitted) = Len(last.sync) + 1

\* C6: empty no-op.  A dispatch call made with both queues empty returns 0,
\* submits nothing and leaves both queues and sync_ratio as they were.
EmptyNoOp ==
    (last.op = "dispatch" /\ last.sync = <<>> /\ last.async = <<>>)
    => /\ last.ret = 0
       /\ last.emitted = <<>>
       /\ Queue(SYNC) = <<>>
       /\ Queue(ASYNC) = <<>>
       /\ ListSeqBack(prev, QueueHead(SYNC)) = <<>>
       /\ ListSeqBack(prev, QueueHead(ASYNC)) = <<>>
       /\ sync_ratio = last.ratio

EmptyNoOpWitness ==
    /\ last.op = "dispatch"
    /\ last.sync = <<>>
    /\ last.async = <<>>
    /\ last.ratio # DEFAULT_SYNC_RATIO
    /\ dispatched # <<>>

\* C4: bounded background latency.  A dispatch call made with queue[ASYNC]
\* not empty submits exactly one async request, the head of queue[ASYNC],
\* whatever queue[SYNC] holds and whatever sync_ratio is; so an async request
\* with k requests ahead of it is submitted by the (k+1)-th dispatch call made
\* while it waits (each call leaves it one place nearer the head).
BoundedBackgroundLatency ==
    /\ (last.op = "dispatch" /\ last.async # <<>>)
       => /\ ClassOf(last.emitted, ASYNC) = <<Head(last.async)>>
          /\ Queue(ASYNC) = Tail(last.async)
    /\ \A i \in 1..Len(Queue(ASYNC)) :
          waited[Queue(ASYNC)[i]] + (i - 1) <= ahead0[Queue(ASYNC)[i]]
    /\ \A i \in 1..Len(dispatched) :
          dir[dispatched[i]] = ASYNC
          => waited[dispatched[i]] <= ahead0[dispatched[i]] + 1

BoundedBackgroundLatencyWitness ==
    /\ last.op = "dispatch"
    /\ last.sync # <<>>
    /\ Queue(SYNC) # <<>>
    /\ \E r \in Range(last.emitted) :
          /\ dir[r] = ASYNC
          /\ ahead0[r] >= 1
          /\ waited[r] = ahead0[r] + 1

\* The requests of class d in the order in which they were added (ids are
\* handed out in that order).
EnqueueOrder(d) == ClassOf([i \in 1..nr_alloc |-> i], d)

\* C5: FIFO per class.  As long as no request has been removed by a merge, the
\* requests of each class submitted so far, followed by those still queued,
\* are the requests of that class in the order in which they were added.
FifoPerClass ==
    merged = {}
    => \A d \in {SYNC, ASYNC} :
          ClassOf(dispatched, d) \o Queue(d) = EnqueueOrder(d)

FifoPerClassWitness ==
    /\ merged = {}
    /\ \E d \in {SYNC, ASYNC} : Len(ClassOf(dispatched, d)) >= 2
    /\ last.op = "dispatch"
    /\ Len(last.emitted) = 1

Occurrences(sq, x) == Cardinality({i \in 1..Len(sq) : sq[i] = x})

\* C7: membership.  Every request is in at most one of the two queues and at
\* most once in it, and a request handed to the dispatch queue is in neither.
Membership ==
    \A r \in Requests :
        /\ Occurrences(Queue(SYNC) \o Queue(ASYNC), r) <= 1
        /\ r \in Range(dispatched) => r \notin Queued

MembershipWitness ==
    /\ dispatched # <<>>
    /\ merged # {}
    /\ Queued # {}

\* C8: merge removal visibility.  A request removed by
\* anxiety_merged_requests is in neither queue, is not returned by a later
\* former/latter lookup and is never handed to the dispatch queue.
MergeRemovalVisibility ==
    \A r \in merged :
        /\ r \notin Queued
        /\ r \notin Range(dispatched)
        /\ last.op \in {"former", "latter"} => last.ret # r

MergeRemovalVisibilityWitness ==
    /\ last.op = "former"
    /\ last.ret # NULL
    /\ \E r \in merged :
          /\ last.ret < r
          /\ r < last.rq
          /\ dir[r] = dir[last.rq]

\* C9: adjacency lookups.  For a queued request, the former lookup returns the
\* request just before it in the queue of its own direction and the latter
\* lookup the one just after it; former returns NULL exactly for the head of
\* that queue and latter exactly for its tail; the request returned is of the
\* same direction; the lookup changes nothing.
AdjacencyLookups ==
    [][ last'.op \in {"former", "latter"}
        => LET rq == last'.rq
               q == Queue(dir[rq])
               i == IndexOf(q, rq)
           IN  /\ rq \in Range(q)
               /\ last'.op = "former"
                  => last'.ret = IF i = 1 THEN NULL ELSE q[i - 1]
               /\ last'.op = "latter"
                  => last'.ret = IF i = Len(q) THEN NULL ELSE q[i + 1]
               /\ last'.ret # NULL
                  => last'.ret \in Requests /\ dir[last'.ret] = dir[rq]
               /\ UNCHANGED <<next, prev, sync_ratio, contig_syncs, dir,
                              nr_alloc, dispatched, merged>> ]_vars

AdjacencyLookupsWitness ==
    /\ last.op = "former"
    /\ last.ret # NULL
    /\ dir[last.rq] = ASYNC
    /\ Queue(SYNC) # <<>>

IsDecimal(page) ==
    /\ page # <<>>
    /\ \A i \in 1..Len(page) : DigitVal(page[i]) < 10
    /\ Len(page) > 1 => page[1] # "0"

RECURSIVE DecimalValue(_)
DecimalValue(page) ==
    IF page = <<>> THEN 0
    ELSE 10 * DecimalValue(SubSeq(page, 1, Len(page) - 1))
         + DigitVal(page[Len(page)])

\* C10: ratio validation.  A write whose text does not parse to a number in
\* 0..255 returns an error and leaves sync_ratio and both queues as they were;
\* a write whose text parses to v in 0..255 returns the count and the text read
\* back from the attribute is v.  A plain decimal text parses to its value.
RatioValidation ==
    last.op = "store"
    => LET k == kstrtou8(last.page)
       IN  /\ IsDecimal(last.page)
              => (k.ret = 0) = (DecimalValue(last.page) <= U8_MAX)
           /\ (IsDecimal(last.page) /\ k.ret = 0)
              => k.val = DecimalValue(last.page)
           /\ k.ret = 0
              => /\ k.val \in 0..U8_MAX
                 /\ last.ret = Len(last.page)
                 /\ sync_ratio = k.val
                 /\ kstrtou8(ShowResult(sync_ratio)) = [ret |-> 0, val |-> k.val]
           /\ k.ret # 0
              => /\ last.ret < 0
                 /\ sync_ratio = last.ratio
           /\ Queue(SYNC) = last.sync
           /\ Queue(ASYNC) = last.async

RatioValidationWitness ==
    /\ last.op = "store"
    /\ last.ret = -ERANGE
    /\ last.ratio \notin {0, DEFAULT_SYNC_RATIO}
    /\ Queued # {}

Gone(r) == r \in Range(dispatched) \/ r \in merged

\* C3 as stated: with the dispatch hook called again and again, every request
\* added to either queue is eventually handed to the dispatch queue (or removed
\* by a merge), whatever sync_ratio is.
NoStarvation ==
    \A r \in Requests : (r \in Queued) ~> Gone(r)

\* C3 as amended: with the dispatch hook called again and again, every request
\* in queue[ASYNC] is eventually handed to the dispatch queue (or removed by a
\* merge) whatever sync_ratio is, and every request in queue[SYNC] is unless
\* sync_ratio is or becomes 0.
NoStarvationUnlessRatioZero ==
    \A r \in Requests :
        (r \in Queued) ~> (Gone(r) \/ (dir[r] = SYNC /\ sync_ratio = 0))

NoStarvationWitness ==
    /\ last.op = "dispatch"
    /\ last.ratio = 1
    /\ \E r \in Range(last.emitted) :
          /\ dir[r] = SYNC
          /\ ahead0[r] >= 1
    /\ \E r \in Range(last.emitted) : dir[r] = ASYNC

\* C11: ratio zero.  A dispatch call made with sync_ratio = 0 submits no sync
\* request and leaves queue[SYNC] as it was; it submits the head of
\* queue[ASYNC] if there is one, and nothing else.
RatioZero ==
    (last.op = "dispatch" /\ last.ratio = 0)
    => /\ Queue(SYNC) = last.sync
       /\ ClassOf(last.emitted, SYNC) = <<>>
       /\ last.emitted = IF last.async = <<>> THEN <<>>
                         ELSE <<Head(last.async)>>
       /\ Queue(ASYNC) = IF last.async = <<>> THEN <<>> ELSE Tail(last.async)

RatioZeroWitness ==
    /\ last.op = "dispatch"
    /\ last.ratio = 0
    /\ Len(last.sync) >= 2
    /\ last.emitted # <<>>

\* C12: return value and work done.  Dispatch returns 1 exactly when one of
\* the queues was not empty at the start of the call, and 0 otherwise; it
\* returns 1 having submitted nothing exactly when sync_ratio = 0, queue[SYNC]
\* was not empty and queue[ASYNC] was empty.
ReturnVersusWork ==
    last.op = "dispatch"
    => /\ last.ret \in {0, 1}
       /\ (last.ret = 1) = (last.sync # <<>> \/ last.async # <<>>)
       /\ (last.ret = 1 /\ last.emitted = <<>>)
          = (last.ratio = 0 /\ last.sync # <<>> /\ last.async = <<>>)

ReturnVersusWorkWitness ==
    /\ last.op = "dispatch"
    /\ last.ret = 1
    /\ last.emitted = <<>>
    /\ dispatched # <<>>

Allocated == 1..nr_alloc

Places(r) ==
    {p \in {"sync", "async", "sink", "merged"} :
        \/ p = "sync" /\ r \in Range(Queue(SYNC))
        \/ p = "async" /\ r \in Range(Queue(ASYNC))
        \/ p = "sink" /\ r \in Range(dispatched)
        \/ p = "merged" /\ r \in merged}

\* C13: the handoff is final and requests are conserved.  Every request is
\* handed to the dispatch queue at most once; every request that was added is
\* in exactly one of queue[SYNC], queue[ASYNC], the dispatch queue and the set
\* removed by merges, and a request never added is in none; a request once
\* handed on stays handed on and is in no queue afterwards.
HandoffFinalAndConserved ==
    /\ [](\A r \in Requests :
            /\ Occurrences(dispatched, r) <= 1
            /\ Occurrences(Queue(SYNC) \o Queue(ASYNC), r) <= 1
            /\ Cardinality(Places(r)) = IF r \in Allocated THEN 1 ELSE 0)
    /\ [][\A r \in Range(dispatched) :
            /\ r \in Range(dispatched')
            /\ r \notin Queued']_vars

HandoffFinalAndConservedWitness ==
    /\ nr_alloc = MaxReq
    /\ Queued = {}
    /\ merged # {}
    /\ Len(dispatched) >= 2

Without(sq, x) == SelectSeq(sq, LAMBDA y : y # x)

\* C15: enqueue frame.  Adding a request that is not queued makes it the last
\* element of the queue of its direction, after that queue's former contents
\* in their former order, and changes nothing else: the other queue,
\* sync_ratio and the dispatch queue are as before.
EnqueueFrame ==
    [][ \A rq \in Requests, d \in {SYNC, ASYNC} :
          (last'.op = "add" /\ last'.rq = rq /\ dir'[rq] = d)
          =>   /\ rq \notin Queued
               /\ Queue(d)' = Append(Queue(d), rq)
               /\ ListSeqBack(prev, QueueHead(d))'
                  = <<rq>> \o ListSeqBack(prev, QueueHead(d))
               /\ Queue(1 - d)' = Queue(1 - d)
               /\ UNCHANGED <<sync_ratio, contig_syncs, dispatched, merged>> ]_vars

EnqueueFrameWitness ==
    /\ last.op = "add"
    /\ Len(last.sync) >= 1
    /\ Len(last.async) >= 1
    /\ dispatched = <<>>

\* C16: merge removal frame.  anxiety_merged_requests on a queued request
\* removes exactly that request from the queue holding it; the other requests
\* of that queue keep their order, and the other queue, sync_ratio and the
\* dispatch queue are as before.
MergeRemoveFrame ==
    [][ \A rq \in Requests, d \in {SYNC, ASYNC} :
          (last'.op = "merged" /\ last'.rq = rq /\ dir[rq] = d)
          =>   /\ rq \in Range(Queue(d))
               /\ Queue(d)' = Without(Queue(d), rq)
               /\ Len(Queue(d)') = Len(Queue(d)) - 1
               /\ Queue(1 - d)' = Queue(1 - d)
               /\ UNCHANGED <<sync_ratio, contig_syncs, dispatched, dir,
                              nr_alloc>> ]_vars

MergeRemoveFrameWitness ==
    /\ last.op = "merged"
    /\ Len(last.sync) = 2
    /\ last.rq = last.sync[1]
    /\ Queue(ASYNC) # <<>>
    /\ Queue(SYNC) # <<>>

Min(a, b) == IF a < b THEN a ELSE b

\* C14: a ratio change takes effect on the next dispatch call.  A dispatch
\* call that returns 1 has submitted min(sync_ratio at its start, length of
\* queue[SYNC] at its start) sync requests, also when an attribute write fell
\* between two of its steps.
RatioChangeTakesEffectNextCall ==
    (last.op = "dispatch" /\ last.ret = 1)
    => Len(ClassOf(last.emitted, SYNC)) = Min(last.ratio, Len(last.sync))

\* C17: init failure leaves nothing reachable.  If either allocation fails,
\* anxiety_init_queue returns -ENOMEM, q->elevator is not changed and what was
\* acquired is released (eq is put when adata cannot be had); -ENOMEM is
\* returned in no other case; q->elevator is the new instance only once both
\* lists, contig_syncs and sync_ratio are initialised.
InitFailureLeavesNothing ==
    /\ setup.failed # "none"
       => /\ setup.pc = "done"
          /\ setup.ret = -ENOMEM
          /\ setup.q_elevator = "prev"
          /\ setup.eq \in {"none", "put"}
          /\ setup.adata = "none"
          /\ setup.failed = "adata" => setup.eq = "put"
    /\ (setup.pc = "done" /\ setup.failed = "none") => setup.ret = 0
    /\ setup.pc # "done" => setup.q_elevator = "prev"
    /\ Registered
       => /\ setup.eq = "live"
          /\ setup.adata = "live"
          /\ setup.elevator_data = "adata"
          /\ \A h \in Heads : next[h] = h /\ prev[h] = h
          /\ contig_syncs = 0
          /\ sync_ratio = DEFAULT_SYNC_RATIO

InitFailureLeavesNothingWitness ==
    /\ setup.pc = "done"
    /\ setup.failed = "adata"
    /\ setup.eq = "put"
    /\ \E h \in Heads : next[h] # h

\* C18: initial state.  When anxiety_init_queue has returned 0, both queues
\* are empty and sync_ratio is 4: the state is the initial state of the
\* scheduler, the attribute reads "4\n" and dispatch, nothing having been
\* added, returns 0 and submits nothing.
InitialState ==
    (setup.pc = "done" /\ setup.ret = 0)
    => /\ Queue(SYNC) = <<>>
       /\ Queue(ASYNC) = <<>>
       /\ sync_ratio = 4
       /\ last.op = "init" => Init
       /\ last.op = "show" => last.page = <<"4", "\n">> /\ last.ret = 2
       /\ last.op = "dispatch" => last.ret = 0 /\ last.emitted = <<>>
       /\ dispatched = <<>>

InitialStateWitness ==
    /\ setup.pc = "done"
    /\ setup.ret = 0
    /\ last.op = "dispatch"

====
